---- MODULE Spec2Model ----
(***************************************************************************)
(* A model of pymagej/roi.py: the ImageJ ROI field schema, the encoder     *)
(* (ROIEncoder) and the decoder (ROIDecoder) acting on one file.           *)
(*                                                                         *)
(* The file is a sequence of bytes (0..255); byte offset o is index o+1.   *)
(* Strings that reach the file ('Iout', the name) are sequences of byte    *)
(* codes, as in the interpreter the module was written for, where str is   *)
(* a byte string.  A wire-type code ('4s', 'h', ...) is a sequence of      *)
(* one-character strings.  A float32 value is the record of its IEEE-754   *)
(* fields [s, e, m]; struct packs and unpacks it bit for bit.              *)
(***************************************************************************)
EXTENDS Integers, Sequences, FiniteSets, TLC

VARIABLES file, enc, dec, res, code

vars == <<file, enc, dec, res, code>>

(***************************************************************************)
(* Field schema                                                            *)
(***************************************************************************)
header1_fields ==
  << <<"MAGIC", <<"4", "s">>, 0>>,
     <<"VERSION_OFFSET", <<"h">>, 4>>,
     <<"TYPE", <<"b">>, 6>>,
     <<"TOP", <<"h">>, 8>>,
     <<"LEFT", <<"h">>, 10>>,
     <<"BOTTOM", <<"h">>, 12>>,
     <<"RIGHT", <<"h">>, 14>>,
     <<"N_COORDINATES", <<"h">>, 16>>,
     <<"X1", <<"f">>, 18>>,
     <<"Y1", <<"f">>, 22>>,
     <<"X2", <<"f">>, 26>>,
     <<"Y2", <<"f">>, 30>>,
     <<"XD", <<"f">>, 18>>,
     <<"YD", <<"f">>, 22>>,
     <<"WIDTH", <<"f">>, 26>>,
     <<"HEIGHT", <<"f">>, 30>>,
     <<"STROKE_WIDTH", <<"h">>, 34>>,
     <<"SHAPE_ROI_SIZE", <<"i">>, 36>>,
     <<"STROKE_COLOR", <<"i">>, 40>>,
     <<"FILL_COLOR", <<"i">>, 44>>,
     <<"SUBTYPE", <<"h">>, 48>>,
     <<"OPTIONS", <<"h">>, 50>>,
     <<"ARROW_STYLE", <<"b">>, 52>>,
     <<"ELLIPSE_ASPECT_RATIO", <<"b">>, 52>>,
     <<"POINT_TYPE", <<"b">>, 52>>,
     <<"ARROW_HEAD_SIZE", <<"b">>, 53>>,
     <<"ROUNDED_RECT_ARC_SIZE", <<"h">>, 54>>,
     <<"POSITION", <<"i">>, 56>>,
     <<"HEADER2_OFFSET", <<"i">>, 60>> >>

header2_fields ==
  << <<"C_POSITION", <<"i">>, 4>>,
     <<"Z_POSITION", <<"i">>, 8>>,
     <<"T_POSITION", <<"i">>, 12>>,
     <<"NAME_OFFSET", <<"i">>, 16>>,
     <<"NAME_LENGTH", <<"i">>, 20>>,
     <<"OVERLAY_LABEL_COLOR", <<"i">>, 24>>,
     <<"OVERLAY_FONT_SIZE", <<"h">>, 28>>,
     <<"AVAILABLE_BYTE1", <<"b">>, 30>>,
     <<"IMAGE_OPACITY", <<"b">>, 31>>,
     <<"IMAGE_SIZE", <<"i">>, 32>>,
     <<"FLOAT_STROKE_WIDTH", <<"f">>, 36>>,
     <<"ROI_PROPS_OFFSET", <<"i">>, 40>>,
     <<"ROI_PROPS_LENGTH", <<"i">>, 44>> >>

roi_types_rev ==
  [n \in {"polygon", "rect", "oval", "line", "freeline", "polyline", "no_roi",
          "freehand", "traced", "angle", "point"} |->
     CASE n = "polygon" -> 0 [] n = "rect" -> 1 [] n = "oval" -> 2
       [] n = "line" -> 3 [] n = "freeline" -> 4 [] n = "polyline" -> 5
       [] n = "no_roi" -> 6 [] n = "freehand" -> 7 [] n = "traced" -> 8
       [] n = "angle" -> 9 [] n = "point" -> 10]

roi_types ==
  [t \in 0..10 |->
     CASE t = 0 -> "polygon" [] t = 1 -> "rect" [] t = 2 -> "oval"
       [] t = 3 -> "line" [] t = 4 -> "freeline" [] t = 5 -> "polyline"
       [] t = 6 -> "no_roi" [] t = 7 -> "freehand" [] t = 8 -> "traces"
       [] t = 9 -> "angle" [] t = 10 -> "point"]

(***************************************************************************)
(* Outcomes: a value, or the exception raised.                             *)
(***************************************************************************)
Ok(v) == [ok |-> TRUE, val |-> v]
Raise(e) == [ok |-> FALSE, err |-> e]

\* The exception classes the module raises or lets through.
FormatError == "IOError: Invalid ROI file, magic number mismatch"
UnsupportedVariant == "NotImplementedError"
HeaderVariableNotFound == "Exception: Header variable not found"

(***************************************************************************)
(* The type-size resolver                                                  *)
(***************************************************************************)
Digits == {"0", "1", "2", "3", "4", "5", "6", "7", "8", "9"}

DigitValue(c) ==
  CASE c = "0" -> 0 [] c = "1" -> 1 [] c = "2" -> 2 [] c = "3" -> 3
    [] c = "4" -> 4 [] c = "5" -> 5 [] c = "6" -> 6 [] c = "7" -> 7
    [] c = "8" -> 8 [] c = "9" -> 9

IsDigit(c) == c \in Digits
IsNonDigit(c) == c \notin Digits

sizes == [c \in {"h", "f", "i", "s", "b"} |->
            CASE c = "h" -> 2 [] c = "f" -> 4 [] c = "i" -> 4
              [] c = "s" -> 1 [] c = "b" -> 1]

\* re.findall('\d', _type): one match per digit character
FirstDigitOnly(number) == DigitValue(number[1])

_type_size(_type) ==
  LET nondigits == SelectSeq(_type, IsNonDigit)
      number == SelectSeq(_type, IsDigit)
  IN  IF nondigits = <<>> THEN Raise("IndexError")
      ELSE IF nondigits[1] \notin DOMAIN sizes THEN Raise("KeyError")
      ELSE IF number # <<>>
           THEN Ok(sizes[nondigits[1]] * FirstDigitOnly(number))
           ELSE Ok(sizes[nondigits[1]])

HeaderTuple(type, size, offset) == [type |-> type, size |-> size, offset |-> offset]

\* {e[0]: HeaderTuple(e[1], self._type_size(e[1]), e[2]) for e in fields}
HeaderDict(fields) ==
  [n \in {fields[i][1] : i \in DOMAIN fields} |->
     LET i == CHOOSE k \in DOMAIN fields :
                /\ fields[k][1] = n
                /\ \A j \in DOMAIN fields : fields[j][1] = n => j <= k
     IN  HeaderTuple(fields[i][2], _type_size(fields[i][2]).val, fields[i][3])]

_header1_dict == HeaderDict(header1_fields)
_header2_dict == HeaderDict(header2_fields)

(***************************************************************************)
(* struct: big-endian packing and unpacking                                *)
(***************************************************************************)
Pow256(k) == CASE k = 0 -> 1 [] k = 1 -> 256 [] k = 2 -> 65536 [] k = 3 -> 16777216

\* the format's repeat count (every leading digit) and its type character
RECURSIVE DecimalValue(_)
DecimalValue(ds) ==
  IF ds = <<>> THEN 0
  ELSE 10 * DecimalValue(SubSeq(ds, 1, Len(ds) - 1)) + DigitValue(ds[Len(ds)])

StructCount(fmt) ==
  LET ds == SelectSeq(fmt, IsDigit) IN IF ds = <<>> THEN 1 ELSE DecimalValue(ds)
StructChar(fmt) == SelectSeq(fmt, IsNonDigit)[1]
StructCalcSize(fmt) == StructCount(fmt) * sizes[StructChar(fmt)]

\* two's complement, most significant byte first
BigEndian(v, n) ==
  IF v >= 0
  THEN [k \in 1..n |-> (v \div Pow256(n - k)) % 256]
  ELSE [k \in 1..n |-> 255 - (((-(v + 1)) \div Pow256(n - k)) % 256)]

RECURSIVE Unsigned(_)
Unsigned(bs) ==
  IF bs = <<>> THEN 0
  ELSE 256 * Unsigned(SubSeq(bs, 1, Len(bs) - 1)) + bs[Len(bs)]

Signed(bs) ==
  IF bs[1] >= 128
  THEN -(Unsigned([k \in 1..Len(bs) |-> 255 - bs[k]])) - 1
  ELSE Unsigned(bs)

\* does the integer fit the signed n-byte field
InRange(v, n) ==
  CASE n = 1 -> v >= -128 /\ v <= 127
    [] n = 2 -> v >= -32768 /\ v <= 32767
    [] n = 4 -> TRUE

FloatBytes(x) ==
  << x.s * 128 + (x.e \div 2),
     (x.e % 2) * 128 + (x.m \div 65536),
     (x.m \div 256) % 256,
     x.m % 256 >>

BytesFloat(bs) ==
  [s |-> bs[1] \div 128,
   e |-> (bs[1] % 128) * 2 + (bs[2] \div 128),
   m |-> (bs[2] % 128) * 65536 + bs[3] * 256 + bs[4]]

\* 's': the string cut or null-padded to the count
StringBytes(str, n) == [k \in 1..n |-> IF k <= Len(str) THEN str[k] ELSE 0]

\* struct.pack('>' + fmt, value)
StructPack(fmt, value) ==
  LET c == StructChar(fmt) IN
  CASE c = "s" -> Ok(StringBytes(value, StructCount(fmt)))
    [] c = "f" -> Ok(FloatBytes(value))
    [] OTHER -> IF InRange(value, sizes[c])
                THEN Ok(BigEndian(value, sizes[c]))
                ELSE Raise("struct.error")

\* struct.unpack('>' + fmt, binary)[0]
StructUnpack(fmt, binary) ==
  LET c == StructChar(fmt) IN
  IF Len(binary) # StructCalcSize(fmt) THEN Raise("struct.error")
  ELSE CASE c = "s" -> Ok(binary)
         [] c = "f" -> Ok(BytesFloat(binary))
         [] OTHER -> Ok(Signed(binary))

(***************************************************************************)
(* The file object: seek, read, write                                      *)
(***************************************************************************)
Min(a, b) == IF a <= b THEN a ELSE b
Max(a, b) == IF a >= b THEN a ELSE b

\* f.seek(offset); f.read(size): short at the end of the file, all the
\* rest for a negative size
FileRead(f, offset, size) ==
  IF size < 0 THEN SubSeq(f, offset + 1, Len(f))
  ELSE SubSeq(f, offset + 1, Min(offset + size, Len(f)))

\* f.seek(offset); f.write(bytes): overwrites in place, null-fills a gap
FileWrite(f, offset, bytes) ==
  [k \in 1..Max(Len(f), offset + Len(bytes)) |->
     IF k > offset /\ k <= offset + Len(bytes) THEN bytes[k - offset]
     ELSE IF k <= Len(f) THEN f[k] ELSE 0]

\* the handle of an object that never entered a session does not exist;
\* the handle of an ended session is closed
HandleError(phase) ==
  IF phase = "unset" THEN "AttributeError" ELSE "ValueError: I/O operation on closed file"

(***************************************************************************)
(* ROI objects                                                             *)
(***************************************************************************)
ROIRect(top, left, bottom, right, arc) ==
  [cls |-> "ROIRect", type |-> "rect", top |-> top, left |-> left,
   bottom |-> bottom, right |-> right, arc |-> arc]

ROILine(x1, y1, x2, y2) ==
  [cls |-> "ROILine", type |-> "line", x1 |-> x1, y1 |-> y1, x2 |-> x2, y2 |-> y2]

\* ROIFreehand, like ROITraces, ROIAngle and ROIPoint, has no type attribute
ROIFreehand(top, left, bottom, right, x_coords, y_coords) ==
  [cls |-> "ROIFreehand", top |-> top, left |-> left, bottom |-> bottom,
   right |-> right, x_coords |-> x_coords, y_coords |-> y_coords]

ROIPolygon == [cls |-> "ROIPolygon", type |-> "polygon"]
ROIOval == [cls |-> "ROIOval", type |-> "oval"]
ROIPolyline == [cls |-> "ROIPolyline", type |-> "polyline"]
ROINoRoi == [cls |-> "ROINoRoi", type |-> "no_roi"]
ROITraces == [cls |-> "ROITraces"]
ROIAngle == [cls |-> "ROIAngle"]
ROIPoint == [cls |-> "ROIPoint"]

(***************************************************************************)
(* ROIDecoder.  A decoder object d holds f_obj, the state of self.f_obj     *)
(* ("unset" before the first __enter__, then "open" or "closed"); header,  *)
(* self.header as a function on the names set so far; fetched, the fields  *)
(* the last operation read from the file; session, whether the caller is   *)
(* inside the with block ("in") or not ("out").                            *)
(***************************************************************************)
Iout == <<73, 111, 117, 116>>

EmptyHeader == [n \in {} |-> 0]

SetItem(h, k, v) == [n \in (DOMAIN h) \cup {k} |-> IF n = k THEN v ELSE h[n]]

\* self.f_obj.seek(offset); binary = self.f_obj.read(var.size); struct.unpack
ReadVar(f_obj, f, var, offset) ==
  IF f_obj # "open" THEN Raise(HandleError(f_obj))
  ELSE IF offset < 0 THEN Raise("IOError: Invalid argument")
  ELSE StructUnpack(var.type, FileRead(f, offset, var.size))

\* an outcome of _get_var, with the fields it read from the file on the way
WithReads(out, reads) ==
  IF out.ok THEN [ok |-> TRUE, val |-> out.val, reads |-> reads]
  ELSE [ok |-> FALSE, err |-> out.err, reads |-> reads]

DidRead(f_obj, offset, name) ==
  IF f_obj = "open" /\ offset >= 0 THEN <<name>> ELSE <<>>

\* offset = var.offset
Header1Var(f_obj, f, var, var_name) ==
  WithReads(ReadVar(f_obj, f, var, var.offset), DidRead(f_obj, var.offset, var_name))

\* offset = var.offset + self._get_var('HEADER2_OFFSET')
Header2Var(f_obj, f, var, var_name, base) ==
  IF ~base.ok THEN base
  ELSE WithReads(ReadVar(f_obj, f, var, var.offset + base.val),
                 base.reads \o DidRead(f_obj, var.offset + base.val, var_name))

RECURSIVE _get_var(_, _, _)
_get_var(f_obj, f, var_name) ==
  IF var_name \in DOMAIN _header1_dict
  THEN Header1Var(f_obj, f, _header1_dict[var_name], var_name)
  ELSE IF var_name \in DOMAIN _header2_dict
  THEN Header2Var(f_obj, f, _header2_dict[var_name], var_name,
                  _get_var(f_obj, f, "HEADER2_OFFSET"))
  ELSE WithReads(Raise(HeaderVariableNotFound), <<>>)

\* an operation's effect on the decoder and what it returned or raised
DecStep(d, out) == [d |-> d, out |-> out]

Fetched(d, r) == [d EXCEPT !.fetched = @ \o r.reads]

\* self.header[var_name] = <the value _get_var returned>
StoreHeader(d, var_name, r) ==
  IF r.ok
  THEN DecStep([Fetched(d, r) EXCEPT !.header = SetItem(@, var_name, r.val)], Ok("None"))
  ELSE DecStep(Fetched(d, r), Raise(r.err))

_set_header(d, f, var_name) == StoreHeader(d, var_name, _get_var(d.f_obj, f, var_name))

\* for h in names: self._set_header(h)
RECURSIVE SetHeaders(_, _, _)
NextHeader(s, f, names) == IF s.out.ok THEN SetHeaders(s.d, f, names) ELSE s

SetHeaders(d, f, names) ==
  IF names = <<>> THEN DecStep(d, Ok("None"))
  ELSE NextHeader(_set_header(d, f, Head(names)), f, Tail(names))

FieldNames(fields) == [i \in DOMAIN fields |-> fields[i][1]]

read_header_all(d, f) ==
  SetHeaders(d, f, FieldNames(header1_fields) \o FieldNames(header2_fields))

to_read_h1 ==
  <<"VERSION_OFFSET", "TYPE", "SUBTYPE", "TOP", "LEFT", "BOTTOM", "RIGHT",
    "N_COORDINATES", "STROKE_WIDTH", "SHAPE_ROI_SIZE", "STROKE_COLOR",
    "FILL_COLOR", "SUBTYPE", "OPTIONS", "POSITION", "HEADER2_OFFSET">>

set_zero == <<"OVERLAY_LABEL_COLOR", "OVERLAY_FONT_SIZE", "IMAGE_OPACITY">>

\* for h in set_zero: self.header[h] = 0
RECURSIVE SetZero(_, _)
SetZero(h, names) ==
  IF names = <<>> THEN h ELSE SetZero(SetItem(h, Head(names), 0), Tail(names))

ZeroDefaults(s) ==
  IF ~s.out.ok THEN s
  ELSE DecStep([s.d EXCEPT !.header = SetZero(@, set_zero)], Ok("None"))

\* the comparison left out
MagicUnchecked(magic) == FALSE

\* self._get_var('MAGIC') != 'Iout'
MagicMismatch(magic) == magic # Iout

\* read_header once _get_var('MAGIC') has returned or raised m
CheckMagic(d, f, m) ==
  IF ~m.ok THEN DecStep(Fetched(d, m), Raise(m.err))
  ELSE IF MagicMismatch(m.val) THEN DecStep(Fetched(d, m), Raise(FormatError))
  ELSE ZeroDefaults(SetHeaders(Fetched(d, m), f,
                               to_read_h1 \o FieldNames(header2_fields)))

read_header(d, f) == CheckMagic(d, f, _get_var(d.f_obj, f, "MAGIC"))

params == <<"TOP", "LEFT", "BOTTOM", "RIGHT">>

RectOf(h) ==
  ROIRect(h["TOP"], h["LEFT"], h["BOTTOM"], h["RIGHT"], h["ROUNDED_RECT_ARC_SIZE"])

ReturnRect(s) == IF ~s.out.ok THEN s ELSE DecStep(s.d, Ok(RectOf(s.d.header)))

_get_roi_rect(d, f) ==
  ReturnRect(SetHeaders(d, f, <<"ROUNDED_RECT_ARC_SIZE">> \o params))

RaiseOval(s) == IF ~s.out.ok THEN s ELSE DecStep(s.d, Raise(UnsupportedVariant))

_get_roi_oval(d, f) == RaiseOval(SetHeaders(d, f, params))

LineOf(h) == ROILine(h["X1"], h["Y1"], h["X2"], h["Y2"])

ReturnLine(s) == IF ~s.out.ok THEN s ELSE DecStep(s.d, Ok(LineOf(s.d.header)))

_get_roi_line(d, f) == ReturnLine(SetHeaders(d, f, <<"X1", "Y1", "X2", "Y2">>))

\* struct.unpack('>' + str(count) + 'h', binary)
UnpackShorts(count, binary) ==
  IF count < 0 \/ Len(binary) # 2 * count THEN Raise("struct.error")
  ELSE Ok([k \in 1..count |-> Signed(SubSeq(binary, 2 * k - 1, 2 * k))])

\* the x values taken from the even positions, as of interleaved pairs
XCoordsInterleaved(coords, n_coords) ==
  [k \in 1..((Len(coords) + 1) \div 2) |-> coords[2 * k - 1]]

\* coords[:n_coords] and coords[n_coords:]
XCoords(coords, n_coords) == SubSeq(coords, 1, n_coords)
YCoords(coords, n_coords) == SubSeq(coords, n_coords + 1, Len(coords))

CoordinatesOffset == 64

FreehandOf(h, coords) ==
  ROIFreehand(h["TOP"], h["LEFT"], h["BOTTOM"], h["RIGHT"],
              XCoords(coords, h["N_COORDINATES"]), YCoords(coords, h["N_COORDINATES"]))

ReturnFreehand(d, coords) ==
  IF ~coords.ok THEN DecStep(d, Raise(coords.err))
  ELSE DecStep(d, Ok(FreehandOf(d.header, coords.val)))

\* self.f_obj.seek(64); binary = self.f_obj.read(2*n_coords*2); struct.unpack
ReadCoordinates(d, f, n_coords) ==
  ReturnFreehand(d, UnpackShorts(2 * n_coords,
                                 FileRead(f, CoordinatesOffset, 2 * n_coords * 2)))

CoordinatesAfter(s, f) ==
  IF ~s.out.ok THEN s
  ELSE IF "N_COORDINATES" \notin DOMAIN s.d.header THEN DecStep(s.d, Raise("KeyError"))
  ELSE ReadCoordinates(s.d, f, s.d.header["N_COORDINATES"])

_get_roi_freehand(d, f) == CoordinatesAfter(SetHeaders(d, f, params), f)

\* the names <n> for which ROIDecoder defines a method _get_roi_<n>
DecoderReaders ==
  {"polygon", "rect", "oval", "line", "freeline", "polyline", "no_roi",
   "freehand", "traced", "angle", "point"}

\* roi_reader()
RoiReader(d, f, name) ==
  CASE name = "rect" -> _get_roi_rect(d, f)
    [] name = "oval" -> _get_roi_oval(d, f)
    [] name = "line" -> _get_roi_line(d, f)
    [] name = "freehand" -> _get_roi_freehand(d, f)
    [] OTHER -> DecStep(d, Raise(UnsupportedVariant))

\* the header is read only when self.header is empty
HeaderIsEmpty(d) == DOMAIN d.header = {}

\* self.roi_types[self.header['TYPE']]: a KeyError is not an AttributeError
TypeName(h) ==
  IF "TYPE" \notin DOMAIN h THEN Raise("KeyError")
  ELSE IF h["TYPE"] \notin DOMAIN roi_types THEN Raise("KeyError")
  ELSE Ok(roi_types[h["TYPE"]])

\* getattr(self, '_get_roi_' + name), then roi_reader()
Dispatch(d, f, name) ==
  IF ~name.ok THEN DecStep(d, Raise(name.err))
  ELSE IF name.val \notin DecoderReaders THEN DecStep(d, Raise(UnsupportedVariant))
  ELSE RoiReader(d, f, name.val)

DispatchAfter(s, f) == IF ~s.out.ok THEN s ELSE Dispatch(s.d, f, TypeName(s.d.header))

get_roi(d, f) ==
  DispatchAfter(IF HeaderIsEmpty(d) THEN read_header(d, f) ELSE DecStep(d, Ok("None")), f)

(***************************************************************************)
(* ROIEncoder.  An encoder object e holds f_obj, roi_obj, name and session *)
(* as the decoder does; written, the set of fields _write_var              *)
(* has written in the session; trace, the calls the caller of SpecFields   *)
(* made in the session, each <<field name, value>> or <<"write()", 0>>.    *)
(***************************************************************************)
header2_offset == 64
name_offset == 128
PadLength == 128
VersionOffset == 225

\* os.path.basename(os.path.splitext(self.path)[0]) of the path 'a.roi'
PathBaseName == <<97>>

EncStep(e, f, out) == [e |-> e, f |-> f, out |-> out]

SchemaNames == (DOMAIN _header1_dict) \cup (DOMAIN _header2_dict)

SchemaVar(var_name) ==
  IF var_name \in DOMAIN _header1_dict
  THEN _header1_dict[var_name] ELSE _header2_dict[var_name]

\* the header-2 base left out
WriteOffsetNoBase(var_name) ==
  IF var_name \in DOMAIN _header1_dict THEN _header1_dict[var_name].offset
  ELSE _header2_dict[var_name].offset

\* the byte offset _write_var seeks to
WriteOffset(var_name) ==
  IF var_name \in DOMAIN _header1_dict THEN _header1_dict[var_name].offset
  ELSE _header2_dict[var_name].offset + header2_offset

\* self.f_obj.write(binary)
WriteBinary(e, f, var_name, binary) ==
  IF ~binary.ok THEN EncStep(e, f, Raise(binary.err))
  ELSE EncStep([e EXCEPT !.written = @ \cup {var_name}],
               FileWrite(f, WriteOffset(var_name), binary.val), Ok("None"))

_write_var(e, f, var_name, value) ==
  IF var_name \notin SchemaNames THEN EncStep(e, f, Raise(HeaderVariableNotFound))
  ELSE IF e.f_obj # "open" THEN EncStep(e, f, Raise(HandleError(e.f_obj)))
  ELSE WriteBinary(e, f, var_name, StructPack(SchemaVar(var_name).type, value))

\* consecutive self._write_var(name, value) statements
RECURSIVE WriteVars(_, _, _)
NextWrite(s, writes) == IF s.out.ok THEN WriteVars(s.e, s.f, writes) ELSE s

WriteVars(e, f, writes) ==
  IF writes = <<>> THEN EncStep(e, f, Ok("None"))
  ELSE NextWrite(_write_var(e, f, Head(writes)[1], Head(writes)[2]), Tail(writes))

\* self.f_obj.seek(self.name_offset); self.f_obj.write(self.name)
WriteNameBytes(s) ==
  IF ~s.out.ok THEN s
  ELSE EncStep(s.e, FileWrite(s.f, name_offset, s.e.name), Ok("None"))

NamedEncoder(e) == [e EXCEPT !.name = IF @ = <<>> THEN PathBaseName ELSE @]

WriteNameLength(e, f) == _write_var(e, f, "NAME_LENGTH", Len(e.name))

_write_name(e, f) == WriteNameBytes(WriteNameLength(NamedEncoder(e), f))

\* TOP and LEFT written from each other's attribute
RectWritesSwapped(e) ==
  << <<"TYPE", roi_types_rev[e.roi_obj.type]>>,
     <<"TOP", e.roi_obj.left>>,
     <<"LEFT", e.roi_obj.top>>,
     <<"BOTTOM", e.roi_obj.bottom>>,
     <<"RIGHT", e.roi_obj.right>>,
     <<"HEADER2_OFFSET", 64>>,
     <<"NAME_OFFSET", name_offset>> >>

RectWrites(e) ==
  << <<"TYPE", roi_types_rev[e.roi_obj.type]>>,
     <<"TOP", e.roi_obj.top>>,
     <<"LEFT", e.roi_obj.left>>,
     <<"BOTTOM", e.roi_obj.bottom>>,
     <<"RIGHT", e.roi_obj.right>>,
     <<"HEADER2_OFFSET", 64>>,
     <<"NAME_OFFSET", name_offset>> >>

NameAfter(s) == IF ~s.out.ok THEN s ELSE _write_name(s.e, s.f)

_write_roi_rect(e, f) == NameAfter(WriteVars(e, f, RectWrites(e)))

\* the names <n> for which ROIEncoder defines a method _write_roi_<n>
EncoderWriters ==
  {"rect", "oval", "line", "freeline", "polyline", "no_roi", "freehand",
   "traced", "angle", "point"}

\* roi_writer()
RoiWriter(e, f, type) ==
  IF type = "rect" THEN _write_roi_rect(e, f)
  ELSE EncStep(e, f, Raise(UnsupportedVariant))

\* getattr(self, '_write_roi_' + self.roi_obj.type), then roi_writer()
WriterAfter(s) ==
  IF ~s.out.ok THEN s
  ELSE IF "type" \notin DOMAIN s.e.roi_obj THEN EncStep(s.e, s.f, Raise("AttributeError"))
  ELSE IF s.e.roi_obj.type \notin EncoderWriters
       THEN EncStep(s.e, s.f, Raise("AttributeError"))
  ELSE RoiWriter(s.e, s.f, s.e.roi_obj.type)

write(e, f) ==
  WriterAfter(WriteVars(e, f, << <<"MAGIC", Iout>>, <<"VERSION_OFFSET", VersionOffset>> >>))

\* a fill that covers header block 1 only
PadHeader1Only == [k \in 1..64 |-> 0]

\* struct.pack('128b', *np.zeros(128))
Pad == [k \in 1..PadLength |-> 0]

(***************************************************************************)
(* The with statement                                                      *)
(***************************************************************************)
\* an __exit__ that closes the handle only when the body did not raise
EncoderExitOnSuccess(e, exc_type) ==
  [o |-> IF exc_type = "None" THEN [e EXCEPT !.f_obj = "closed"] ELSE e, ret |-> FALSE]

\* __exit__: closes the handle, returns False
EncoderExit(e, exc_type) == [o |-> [e EXCEPT !.f_obj = "closed"], ret |-> FALSE]
DecoderExit(d, exc_type) == [o |-> [d EXCEPT !.f_obj = "closed"], ret |-> FALSE]

\* what the with statement hands to its caller: the body's exception
\* unless __exit__ returned a true value
WithResult(exc, ret) == IF exc # "None" /\ ~ret THEN Raise(exc) ELSE Ok("None")

Result(obj, op, out) == [obj |-> obj, op |-> op, exc |-> "None", out |-> out]

\* the exception that ends the with block: none, or the one the last call
\* of the body raised
Pending(obj) ==
  IF res.obj = obj /\ res.op # "__exit__" /\ ~res.out.ok
  THEN {"None", res.out.err} ELSE {"None"}

(***************************************************************************)
(* Bounds and inputs                                                       *)
(***************************************************************************)
MaxCodeLen == 3

TopVals == {-32768, 258}
LeftVals == {-2, 0}
BottomVals == {32767, -1}
RightVals == {255, 256}
ArcVals == {0, 5}
Names == {<<>>, <<114, 49>>}

RoiObjs ==
  {ROIRect(t, l, b, r, a) : t \in TopVals, l \in LeftVals, b \in BottomVals,
                            r \in RightVals, a \in ArcVals}
  \cup {ROIPolygon, ROIOval, ROILine(0, 0, 0, 0), ROIPolyline, ROINoRoi,
        ROIFreehand(0, 0, 0, 0, <<>>, <<>>), ROITraces, ROIAngle, ROIPoint}

NewEncoder(roi_obj, name) ==
  [f_obj |-> "unset", roi_obj |-> roi_obj, name |-> name, written |-> {},
   trace |-> <<>>, session |-> "out"]

NewDecoder ==
  [f_obj |-> "unset", header |-> EmptyHeader, fetched |-> <<>>,
   session |-> "out"]

NoResult == Result("none", "none", Ok("None"))

(***************************************************************************)
(* Actions                                                                 *)
(***************************************************************************)
\* with ROIEncoder(path, roi_obj, name) as e:  (open(path, 'wb') truncates;
\* the sessions on the path do not overlap, so a reader sees a closed file)
EncEnter ==
  /\ enc.session = "out"
  /\ dec.session = "out"
  /\ enc' = [enc EXCEPT !.f_obj = "open", !.session = "in",
                        !.written = {}, !.trace = <<>>]
  /\ file' = FileWrite(<<>>, 0, Pad)
  /\ res' = Result("enc", "__enter__", Ok("None"))
  /\ UNCHANGED <<dec, code>>

EncCall(op, s) ==
  /\ enc' = s.e
  /\ file' = s.f
  /\ res' = Result("enc", op, s.out)
  /\ UNCHANGED <<dec, code>>

Traced(e, call) == [e EXCEPT !.trace = IF e.session = "in" THEN Append(@, call) ELSE @]

EncWrite == EncCall("write", write(enc, file))

EncExit ==
  /\ enc.session = "in"
  /\ \E exc \in Pending("enc") :
       LET x == EncoderExit(enc, exc)
       IN  /\ enc' = [x.o EXCEPT !.session = "out"]
           /\ res' = [obj |-> "enc", op |-> "__exit__", exc |-> exc,
                      out |-> WithResult(exc, x.ret)]
  /\ UNCHANGED <<file, dec, code>>

\* with ROIDecoder(path) as d:
DecEnter ==
  /\ dec.session = "out"
  /\ enc.session = "out"
  /\ dec' = [dec EXCEPT !.f_obj = "open", !.session = "in"]
  /\ res' = Result("dec", "__enter__", Ok("None"))
  /\ UNCHANGED <<file, enc, code>>

DecCall(op, s) ==
  /\ dec' = s.d
  /\ res' = Result("dec", op, s.out)
  /\ UNCHANGED <<file, enc, code>>

Fresh(d) == [d EXCEPT !.fetched = <<>>]

DecReadHeader == DecCall("read_header", read_header(Fresh(dec), file))
DecReadHeaderAll == DecCall("read_header_all", read_header_all(Fresh(dec), file))
DecGetRoi == DecCall("get_roi", get_roi(Fresh(dec), file))

DecExit ==
  /\ dec.session = "in"
  /\ \E exc \in Pending("dec") :
       LET x == DecoderExit(dec, exc)
       IN  /\ dec' = [x.o EXCEPT !.session = "out"]
           /\ res' = [obj |-> "dec", op |-> "__exit__", exc |-> exc,
                      out |-> WithResult(exc, x.ret)]
  /\ UNCHANGED <<file, enc, code>>

(***************************************************************************)
(* Spec: one encoder and one decoder on the same path                      *)
(***************************************************************************)
Init ==
  /\ file = <<>>
  /\ \E o \in RoiObjs, n \in Names : enc = NewEncoder(o, n)
  /\ dec = NewDecoder
  /\ res = NoResult
  /\ code = <<>>

Next ==
  \/ EncEnter
  \/ EncWrite
  \/ EncExit
  \/ DecEnter
  \/ DecGetRoi
  \/ DecExit

Spec == Init /\ [][Next]_vars

(***************************************************************************)
(* SpecTypeSize: the resolver applied to wire-type codes                   *)
(***************************************************************************)
CodeChars == {"1", "2", "4", "h", "f", "i", "s", "b", "x"}

RECURSIVE SeqsUpTo(_, _)
SeqsUpTo(S, n) ==
  IF n = 0 THEN {<<>>}
  ELSE LET shorter == SeqsUpTo(S, n - 1)
       IN  shorter \cup {Append(q, c) : q \in shorter, c \in S}

InitTypeSize ==
  /\ file = <<>>
  /\ enc = NewEncoder(ROIPolygon, <<>>)
  /\ dec = NewDecoder
  /\ res = NoResult
  /\ code \in SeqsUpTo(CodeChars, MaxCodeLen)

TypeSize ==
  /\ res.op = "none"
  /\ res' = Result("schema", "_type_size", _type_size(code))
  /\ UNCHANGED <<file, enc, dec, code>>

NextTypeSize == TypeSize

SpecTypeSize == InitTypeSize /\ [][NextTypeSize]_vars

(***************************************************************************)
(* SpecDecode: one decoder on a file some other program wrote.  A stream   *)
(* is given byte by byte: the magic, the type byte, the coordinate count   *)
(* n, the 2n coordinates as byte pairs, HEADER2_OFFSET and the number of   *)
(* bytes that follow the coordinate block.                                 *)
(***************************************************************************)
MaxCoords == 2

Xout == <<88, 111, 117, 116>>
Magics == {Iout, Xout}
CoordBytes == {<<1, 2>>, <<255, 254>>}
TailLengths == {0, 64}

\* HEADER2_OFFSET on the wire, for -256 <= v <= 255
OffsetBytes(v) == IF v >= 0 THEN <<0, 0, 0, v>> ELSE <<255, 255, 255, 256 + v>>

StreamHeader(magic, tb, n, h2) ==
  [k \in 1..64 |->
     CASE k <= 4 -> magic[k]
       [] k = 6 -> 227                    \* VERSION_OFFSET
       [] k = 7 -> tb                     \* TYPE
       [] k = 10 -> 10                    \* TOP
       [] k = 12 -> 20                    \* LEFT
       [] k = 14 -> 30                    \* BOTTOM
       [] k = 16 -> 40                    \* RIGHT
       [] k = 18 -> n                     \* N_COORDINATES
       [] k = 19 -> 63                    \* X1 = 1.0
       [] k = 20 -> 128
       [] k = 23 -> 64                    \* Y1 = 2.0
       [] k = 27 -> 192                   \* X2 = -3.0
       [] k = 28 -> 64
       [] k = 56 -> 3                     \* ROUNDED_RECT_ARC_SIZE
       [] k >= 61 -> OffsetBytes(h2)[k - 60]
       [] OTHER -> 0]

RECURSIVE Flatten(_)
Flatten(ss) == IF ss = <<>> THEN <<>> ELSE Head(ss) \o Flatten(Tail(ss))

Stream(magic, tb, n, cs, h2, tail) ==
  StreamHeader(magic, tb, n, h2) \o Flatten(cs) \o [k \in 1..tail |-> 0]

TypeSweepStreams ==
  {Stream(m, tb, 0, <<>>, 64, 64) : m \in Magics, tb \in 0..255}

FreehandStreams ==
  UNION {{Stream(Iout, 7, n, cs, h2, t) :
            cs \in [1..(2 * n) -> CoordBytes],
            h2 \in {64 + 4 * n, 0, 64, 200, -100},
            t \in TailLengths} : n \in 0..MaxCoords}

TruncatedStreams == {<<>>, SubSeq(Iout, 1, 2), Iout, SubSeq(Xout, 1, 3)}

Streams == TypeSweepStreams \cup FreehandStreams \cup TruncatedStreams

InitDecode ==
  /\ file \in Streams
  /\ enc = NewEncoder(ROIPolygon, <<>>)
  /\ dec = NewDecoder
  /\ res = NoResult
  /\ code = <<>>

NextDecode ==
  \/ DecEnter
  \/ DecReadHeader
  \/ DecReadHeaderAll
  \/ DecGetRoi
  \/ DecExit

SpecDecode == InitDecode /\ [][NextDecode]_vars

(***************************************************************************)
(* SpecFields: one encoder whose caller writes single fields               *)
(***************************************************************************)
MaxCalls == 2

One == [s |-> 0, e |-> 127, m |-> 0]
MinusThree == [s |-> 1, e |-> 128, m |-> 4194304]

\* the values a caller passes for a field of the given wire type
FieldValues(type) ==
  CASE StructChar(type) = "s" -> {Iout}
    [] StructChar(type) = "b" -> {7, -1}
    [] StructChar(type) = "h" -> {VersionOffset, 40000}
    [] StructChar(type) = "i" -> {64, 16909060}
    [] StructChar(type) = "f" -> {One, MinusThree}

\* the fields the caller writes directly: every slot that two or three
\* names share, and fields of every wire type in both header blocks
WrittenFields ==
  {"MAGIC", "VERSION_OFFSET", "TYPE", "TOP", "X1", "XD", "Y2", "HEIGHT",
   "ARROW_STYLE", "ELLIPSE_ASPECT_RATIO", "POINT_TYPE", "ARROW_HEAD_SIZE",
   "POSITION", "HEADER2_OFFSET", "C_POSITION", "NAME_OFFSET",
   "OVERLAY_FONT_SIZE", "IMAGE_OPACITY", "FLOAT_STROKE_WIDTH", "ROI_PROPS_LENGTH"}

FieldCalls ==
  UNION {{<<n, v>> : v \in FieldValues(SchemaVar(n).type)} : n \in WrittenFields}
  \cup {<<"BOGUS", 0>>}

EncWriteVar ==
  /\ enc.session = "in"
  /\ Len(enc.trace) < MaxCalls
  /\ \E c \in FieldCalls :
       EncCall("_write_var", _write_var(Traced(enc, c), file, c[1], c[2]))

\* write() as one of the calls of the session
EncWriteTraced ==
  /\ Len(enc.trace) < MaxCalls
  /\ EncCall("write", write(Traced(enc, <<"write()", 0>>), file))

InitFields ==
  /\ file = <<>>
  /\ enc = NewEncoder(ROIPolygon, <<>>)
  /\ dec = NewDecoder
  /\ res = NoResult
  /\ code = <<>>

NextFields ==
  \/ EncEnter
  \/ EncWriteTraced
  \/ EncWriteVar
  \/ EncExit

SpecFields == InitFields /\ [][NextFields]_vars

(***************************************************************************)
(* Properties                                                              *)
(***************************************************************************)
DecoderRan(op) == res.obj = "dec" /\ res.op = op /\ dec.f_obj = "open"

StreamMagic == SubSeq(file, 1, 4)

\* C1: a rectangle with arc = 0 that write() wrote inside a session comes
\* back from get_roi() on the closed file as a rect with the same top,
\* left, bottom, right and arc.
C1_RectRoundTrip ==
  (/\ DecoderRan("get_roi")
   /\ enc.roi_obj.cls = "ROIRect"
   /\ enc.roi_obj.arc = 0
   /\ "NAME_LENGTH" \in enc.written)
  => (res.out.ok /\ res.out.val = enc.roi_obj)

C1_Witness ==
  /\ DecoderRan("get_roi")
  /\ enc.roi_obj.cls = "ROIRect"
  /\ enc.roi_obj.arc = 0
  /\ "NAME_LENGTH" \in enc.written
  /\ res.out.ok
  /\ res.out.val.top = -32768
  /\ res.out.val.left = -2
  /\ res.out.val.bottom = 32767
  /\ res.out.val.right = 256

\* C2: on a stream whose first 4 bytes are not "Iout", read_header() raises
\* the magic-mismatch IOError, fetches no field but MAGIC and leaves the
\* header mapping as it was.
C2_BadMagicStopsHeaderRead ==
  [][(DecReadHeader /\ dec.f_obj = "open" /\ Len(file) >= 4 /\ StreamMagic # Iout)
     => (/\ res'.out = Raise(FormatError)
         /\ dec'.fetched = <<"MAGIC">>
         /\ dec'.header = dec.header)]_vars

C2_Witness ==
  /\ DecoderRan("read_header")
  /\ Len(file) >= 4
  /\ StreamMagic # Iout
  /\ res.out = Raise(FormatError)
  /\ DOMAIN dec.header # {}

\* C3: on a complete stream with valid magic, whatever the TYPE byte,
\* get_roi() returns a rect, line or freehand or raises NotImplementedError.
C3_EveryTagSupportedOrUnsupported ==
  (DecoderRan("get_roi") /\ file \in TypeSweepStreams /\ StreamMagic = Iout)
  => \/ res.out.ok /\ res.out.val.cls \in {"ROIRect", "ROILine", "ROIFreehand"}
     \/ ~res.out.ok /\ res.out.err = UnsupportedVariant

\* C4: write() of any ROI object other than a rectangle raises
\* NotImplementedError, with MAGIC and VERSION_OFFSET written and nothing else.
C4_NonRectWriteUnsupported ==
  (/\ res.obj = "enc"
   /\ res.op = "write"
   /\ enc.f_obj = "open"
   /\ enc.roi_obj.cls # "ROIRect")
  => (res.out = Raise(UnsupportedVariant) /\ enc.written = {"MAGIC", "VERSION_OFFSET"})

\* the stream's fields, byte by byte
RawShort(hi, lo) == IF hi >= 128 THEN hi * 256 + lo - 65536 ELSE hi * 256 + lo

RawCount == RawShort(file[17], file[18])

RawHeader2Offset ==
  IF file[61] >= 128
  THEN -((((255 - file[61]) * 256 + (255 - file[62])) * 256 + (255 - file[63])) * 256
         + (255 - file[64])) - 1
  ELSE ((file[61] * 256 + file[62]) * 256 + file[63]) * 256 + file[64]

FreehandStream ==
  /\ Len(file) >= 64
  /\ StreamMagic = Iout
  /\ file[7] = 7
  /\ RawCount >= 0
  /\ Len(file) >= 64 + 4 * RawCount

ExpectedX == [k \in 1..RawCount |-> RawShort(file[64 + 2 * k - 1], file[64 + 2 * k])]

ExpectedY ==
  [k \in 1..RawCount |->
     RawShort(file[64 + 2 * RawCount + 2 * k - 1], file[64 + 2 * RawCount + 2 * k])]

ReturnsStoredCoordinates ==
  /\ res.out.ok
  /\ res.out.val.cls = "ROIFreehand"
  /\ res.out.val.x_coords = ExpectedX
  /\ res.out.val.y_coords = ExpectedY

\* C5 as claimed: on every freehand stream of at least 64 + 4N bytes,
\* get_roi() returns the N x values stored from byte 64 and the N y values
\* that follow them, whatever HEADER2_OFFSET is.
C5_FreehandAnyHeader2Offset ==
  (DecoderRan("get_roi") /\ FreehandStream) => ReturnsStoredCoordinates

\* every field of header block 2 lies inside the stream
Header2InStream ==
  /\ RawHeader2Offset + 4 >= 0
  /\ RawHeader2Offset + 48 <= Len(file)

\* C5: on every freehand stream of at least 64 + 4N bytes whose header
\* block 2 lies inside the stream, get_roi() returns the N x values stored
\* from byte 64 and the N y values that follow them, in on-disk order.
C5_FreehandCoordinates ==
  (DecoderRan("get_roi") /\ FreehandStream /\ Header2InStream)
  => ReturnsStoredCoordinates

C5_Witness ==
  /\ DecoderRan("get_roi")
  /\ FreehandStream
  /\ Header2InStream
  /\ RawCount = 2
  /\ RawHeader2Offset = 72
  /\ res.out.ok
  /\ res.out.val.x_coords = <<258, -2>>
  /\ res.out.val.y_coords = <<-2, 258>>

\* C6: a count of one or more digits followed by one type character of
\* h, f, i, s, b resolves to count times the base size; a code with no type
\* character, or with another one, fails.
WellFormedCode ==
  /\ code # <<>>
  /\ code[Len(code)] \in {"h", "f", "i", "s", "b"}
  /\ \A k \in 1..(Len(code) - 1) : code[k] \in Digits

RepeatCount == IF Len(code) = 1 THEN 1 ELSE DecimalValue(SubSeq(code, 1, Len(code) - 1))

BaseSize(c) == CASE c = "h" -> 2 [] c = "f" -> 4 [] c = "i" -> 4 [] c = "s" -> 1 [] c = "b" -> 1

NoKnownTypeChar == \A k \in 1..Len(code) : code[k] \in Digits \cup {"x"}

C6_TypeSizeIsCountTimesBase ==
  (res.op = "_type_size")
  => /\ WellFormedCode => res.out = Ok(RepeatCount * BaseSize(code[Len(code)]))
     /\ NoKnownTypeChar => ~res.out.ok

\* what the reader returns for a field of the closed file
ReadBack(n) == _get_var("open", file, n)

IsZero(type, v) ==
  CASE StructChar(type) = "s" -> v = [k \in 1..StructCount(type) |-> 0]
    [] StructChar(type) = "f" -> v = [s |-> 0, e |-> 0, m |-> 0]
    [] OTHER -> v = 0

ReadsBackZero(n) == ReadBack(n).ok /\ IsZero(SchemaVar(n).type, ReadBack(n).val)

\* C7 as claimed: after the zero fill and any writes, every schema field
\* that was never written reads back as zero.
C7_UnwrittenReadsZero ==
  (enc.f_obj = "closed")
  => \A n \in SchemaNames \ enc.written : ReadsBackZero(n)

\* the bytes the writer gives a field
Slot(n) == WriteOffset(n)..(WriteOffset(n) + SchemaVar(n).size - 1)

Overwritten(n) == \E w \in enc.written : Slot(w) \cap Slot(n) # {}

\* C7: after the zero fill and any writes, a header-1 field whose bytes no
\* written field covers reads back as zero, and so does such a header-2
\* field when HEADER2_OFFSET holds 64, the base the writer uses.
C7_UntouchedReadsZero ==
  (enc.f_obj = "closed")
  => \A n \in SchemaNames :
       ~Overwritten(n)
       => /\ n \in DOMAIN _header1_dict => ReadsBackZero(n)
          /\ (n \in DOMAIN _header2_dict /\ SubSeq(file, 61, 64) = <<0, 0, 0, 64>>)
             => ReadsBackZero(n)

C7_Witness ==
  /\ enc.f_obj = "closed"
  /\ enc.written = {"HEADER2_OFFSET", "X1"}
  /\ SubSeq(file, 61, 64) = <<0, 0, 0, 64>>
  /\ ~Overwritten("C_POSITION")
  /\ ReadsBackZero("C_POSITION")

\* C8: the handle is open only inside a session, __exit__ closes it with
\* or without an exception and hands the exception on, and outside a
\* session no call reads a field or changes the file.
SessionStep ==
  /\ enc'.session = "out" => enc'.f_obj # "open"
  /\ dec'.session = "out" => dec'.f_obj # "open"
  /\ EncExit => enc'.f_obj = "closed"
  /\ DecExit => dec'.f_obj = "closed"
  /\ (res'.op = "__exit__" /\ res'.exc # "None") => res'.out = Raise(res'.exc)
  /\ (EncWrite /\ enc.session = "out")
     => (~res'.out.ok /\ file' = file /\ enc'.written = enc.written)
  /\ (DecGetRoi /\ dec.session = "out")
     => (~res'.out.ok /\ dec'.fetched = <<>> /\ dec'.header = dec.header)

C8_SessionsCloseTheHandle == [][SessionStep]_vars

C8_Witness ==
  /\ res.obj = "enc"
  /\ res.op = "__exit__"
  /\ res.exc = "AttributeError"
  /\ res.out = Raise("AttributeError")
  /\ enc.f_obj = "closed"
  /\ dec.f_obj = "closed"
  /\ DOMAIN dec.header # {}

\* the two direct calls of a session, and the file with them in the other
\* order (the caller goes on after a call that raised)
TwoWrites ==
  /\ enc.session = "in"
  /\ Len(enc.trace) = 2
  /\ enc.trace[1][1] \in SchemaNames
  /\ enc.trace[2][1] \in SchemaNames
  /\ enc.trace[1][1] # enc.trace[2][1]

ThenWrite(s, call) == _write_var(s.e, s.f, call[1], call[2])

OtherOrder == ThenWrite(ThenWrite(EncStep(enc, Pad, Ok("None")), enc.trace[2]), enc.trace[1]).f

\* C9 as claimed: two writes to distinct field names commute.
C9_DistinctNamesCommute == TwoWrites => file = OtherOrder

\* the names that share a slot of the schema
UnionSlots ==
  {{"X1", "XD"}, {"Y1", "YD"}, {"X2", "WIDTH"}, {"Y2", "HEIGHT"},
   {"ARROW_STYLE", "ELLIPSE_ASPECT_RATIO", "POINT_TYPE"}}

SameSlot(a, b) == \E g \in UnionSlots : a \in g /\ b \in g

SlotsDisjoint ==
  \A a \in SchemaNames : \A b \in SchemaNames :
    (a # b /\ ~SameSlot(a, b)) => Slot(a) \cap Slot(b) = {}

\* C9: two distinct field names that do not share a union slot are written
\* to disjoint byte ranges, and two such writes commute.
C9_DistinctSlotsCommute ==
  /\ SlotsDisjoint
  /\ (TwoWrites /\ ~SameSlot(enc.trace[1][1], enc.trace[2][1])) => file = OtherOrder

C9_Witness ==
  /\ TwoWrites
  /\ enc.trace[1] = <<"XD", MinusThree>>
  /\ enc.trace[2] = <<"C_POSITION", 16909060>>
  /\ enc.written = {"XD", "C_POSITION"}
  /\ file = OtherOrder

\* C10: get_roi() never returns a ROI for a stream that does not begin
\* with "Iout".
C10_NoRoiFromBadMagic ==
  (res.obj = "dec" /\ res.op = "get_roi" /\ res.out.ok) => StreamMagic = Iout

====
